---- MODULE Spec2Model ----
(***************************************************************************)
(* Whiteboard-to-LaTeX converter: the image normalisation pipeline         *)
(* (src/src/preprocess.py, preprocess_image), the HTTP upload handler      *)
(* (src/web/app.py, process_image) and the command line driver             *)
(* (src/main.py, main).                                                    *)
(*                                                                         *)
(* An image is a record [w, h, lv]: its width, its height and lv, the set  *)
(* of intensity values (0..255) its pixels take.  The OpenCV calls are     *)
(* modelled by their documented effect on these three fields; after an     *)
(* interpolating call lv holds every value the call can produce from       *)
(* neighbouring pixels of the values before it.                            *)
(*                                                                         *)
(* HoughLines is called with an angle resolution of pi/180, so a detected  *)
(* line's theta is a whole number of degrees in 0..179; angles are kept in *)
(* degrees, and the mean of the kept angles as the pair (sum, cnt).        *)
(***************************************************************************)
EXTENDS Integers, Sequences, FiniteSets, TLC

VARIABLES
    \* ---- preprocess_image (src/src/preprocess.py) ----
    pc,          \* the statement preprocess_image is at
    input,       \* the file at input_path: [ok, w, h, colours]
    aggressive,  \* the aggressive argument
    enhanced,    \* the carried image (img, gray, blurred, enhanced in turn)
    temp_binary, \* the binary map built for line detection
    lines,       \* cv2.HoughLines' result: thetas in degrees, << >> for None
    angles,      \* the angles kept by the filter
    avg_angle,   \* np.mean(angles): [has, sum, cnt]
    rotation,    \* the warpAffine call: [applied, num, den] (angle num/den)
    resized,     \* the image handed to cv2.imwrite
    written,     \* the file at output_path
    err,         \* the exception preprocess_image raised, "none" if none
    \* ---- process_image (src/web/app.py) ----
    req,         \* per request: its locals and its position in the handler
    files,       \* the upload folder: pairs <<path, the upload the bytes derive from>>
    used,        \* the uuids handed out so far
    \* ---- main (src/main.py) ----
    cli          \* the command line run: its position, the file system, its exit

pvars == <<pc, input, aggressive, enhanced, temp_binary, lines, angles,
           avg_angle, rotation, resized, written, err>>
wvars == <<req, files, used>>
cvars == <<cli>>
vars  == <<pvars, wvars, cvars>>

(***************************************************************************)
(* Python float arithmetic (IEEE 754 double, round to nearest even) on the *)
(* values target_height is computed from.  A float is n * 2^k, n a natural *)
(* number of at most DoublePrecision bits held as a sequence of limbs of   *)
(* LimbBits bits, most significant first.                                  *)
(***************************************************************************)
DoublePrecision == 53
LimbBits == 13
LimbBase == 2^13

RECURSIVE ExpUp(_, _, _)
ExpUp(a, b, k) == IF 2 * b <= a THEN ExpUp(a, 2 * b, k + 1) ELSE k

RECURSIVE ExpDown(_, _, _)
ExpDown(a, b, j) == IF a < b THEN ExpDown(2 * a, b, j + 1) ELSE j

Front(s) == SubSeq(s, 1, Len(s) - 1)

RECURSIVE DivLimbs(_, _, _)
DivLimbs(r, b, n) ==
    IF n = 0 THEN << >>
    ELSE <<(r * LimbBase) \div b>> \o DivLimbs((r * LimbBase) % b, b, n - 1)

RECURSIVE DivRem(_, _, _)
DivRem(r, b, n) == IF n = 0 THEN r ELSE DivRem((r * LimbBase) % b, b, n - 1)

RECURSIVE IncBig(_)
IncBig(x) ==
    IF x = << >> THEN <<1>>
    ELSE IF x[Len(x)] + 1 < LimbBase THEN Front(x) \o <<x[Len(x)] + 1>>
    ELSE IncBig(Front(x)) \o <<0>>

RECURSIVE MulLimbs(_, _, _)
MulLimbs(x, c, carry) ==
    IF x = << >> THEN (IF carry = 0 THEN << >> ELSE <<carry>>)
    ELSE LET t == x[Len(x)] * c + carry
         IN  MulLimbs(Front(x), c, t \div LimbBase) \o <<t % LimbBase>>

RECURSIVE IntBitLen(_)
IntBitLen(n) == IF n = 0 THEN 0 ELSE 1 + IntBitLen(n \div 2)

BitLen(x) == IF x = << >> THEN 0 ELSE LimbBits * (Len(x) - 1) + IntBitLen(x[1])

RECURSIVE StripZeros(_)
StripZeros(x) == IF x # << >> /\ x[1] = 0 THEN StripZeros(Tail(x)) ELSE x

ShiftRight(x, s) ==
    IF s = 0 THEN x
    ELSE IF s >= LimbBits * Len(x) THEN << >>
    ELSE LET q == s \div LimbBits
             r == s % LimbBits
             y == SubSeq(x, 1, Len(x) - q)
         IN  StripZeros([i \in 1..Len(y) |->
                 (y[i] \div 2^r)
                 + (IF i = 1 THEN 0 ELSE (y[i - 1] % 2^r) * 2^(LimbBits - r))])

\* x * 2^k rounded to DoublePrecision significant bits; sticky: bits below x
RoundNearestEven(x, sticky, k) ==
    LET s == BitLen(x) - DoublePrecision
    IN  IF s <= 0 THEN [n |-> x, k |-> k]
        ELSE LET low   == x[Len(x)] % 2^s
                 guard == low \div 2^(s - 1) = 1
                 rest  == sticky \/ low % 2^(s - 1) # 0
                 q     == ShiftRight(x, s)
                 up    == guard /\ (rest \/ q[Len(q)] % 2 = 1)
             IN  [n |-> IF up THEN IncBig(q) ELSE q, k |-> k + s]

\* the float h / w, for integers h, w >= 1
FloatDiv(h, w) ==
    LET e == IF h >= w THEN ExpUp(h, w, 0) ELSE 0 - ExpDown(h, w, 0)
        a == IF e >= 0 THEN h ELSE h * 2^(0 - e)
        b == IF e >= 0 THEN w * 2^e ELSE w
        r == DivRem(a - b, b, 4)
        g == IF 2 * r >= b THEN 1 ELSE 0
        x == (<<1>> \o DivLimbs(a - b, b, 4)) \o <<g * 2^(LimbBits - 1)>>
    IN  RoundNearestEven(x, 2 * r - g * b > 0,
                         e - (DoublePrecision - 1) - LimbBits)

\* the float c * x, for an integer c >= 1
FloatMulInt(c, x) == RoundNearestEven(MulLimbs(x.n, c, 0), FALSE, x.k)

RECURSIVE BigToInt(_)
BigToInt(x) == IF x = << >> THEN 0 ELSE LimbBase * BigToInt(Front(x)) + x[Len(x)]

\* int(x): truncation toward zero of a float x >= 0
FloatTrunc(x) ==
    IF x.k >= 0 THEN BigToInt(x.n) * 2^x.k ELSE BigToInt(ShiftRight(x.n, 0 - x.k))

(***************************************************************************)
(* preprocess_image                                                        *)
(***************************************************************************)
target_width == 800
MaxConsidered == 20
AngleWindow == 45
MinDegrees == 1
HoughThreshold == 200
InterTab == 32

\* the widths, heights and colours of the input files
Widths  == {1, 800, 801, 840, 1000, 1600}
Heights == {1, 2, 483}
Colours == { {<<200, 200, 200>>}, {<<20, 30, 40>>, <<250, 240, 230>>} }
\* the intensities contrast enhancement may leave
Palettes == { {200}, {30, 220} }
\* the number of lines HoughLines may return, and their thetas
MaxLines == 22
LineCounts == {0, 1, 2, MaxConsidered} \cup (MaxConsidered + 1)..MaxLines
Thetas == {0, 45, 46, 85, 89, 90, 91, 92, 95, 134, 135}
RestThetas == {90, 91, 135}
LateThetas == {90, 100}

NoImage == [w |-> 0, h |-> 0, lv |-> {}]
NoMean  == [has |-> FALSE, sum |-> 0, cnt |-> 0]
NoRotation == [applied |-> FALSE, num |-> 0, den |-> 1]

Abs(x) == IF x < 0 THEN 0 - x ELSE x
Max(S) == CHOOSE x \in S : \A y \in S : y <= x

RECURSIVE SeqSum(_)
SeqSum(s) == IF s = << >> THEN 0 ELSE s[1] + SeqSum(Tail(s))

\* cv2.cvtColor(img, COLOR_BGR2GRAY) on one pixel: fixed-point luminance
GrayOf(bgr) == (bgr[1] * 1868 + bgr[2] * 9617 + bgr[3] * 4899 + 8192) \div 16384

\* cv2.GaussianBlur(gray, (3, 3), 0): the kernel (1, 2, 1) / 4
BlurLevels(lv) == { (a + 2 * b + c + 2) \div 4 : a \in lv, b \in lv, c \in lv }

\* the threshold THRESH_OTSU picks: between the classes, 0 on a uniform image
OtsuThresholds(lv) == IF Cardinality(lv) <= 1 THEN {0} ELSE lv \ {Max(lv)}

\* a threshold that keeps the bright pixels' values (THRESH_TOZERO)
ThresholdToZero(lv, t) == { IF v > t THEN v ELSE 0 : v \in lv }

\* cv2.threshold(enhanced, 0, 255, THRESH_BINARY + THRESH_OTSU)
ThresholdBinary(lv, t) == { IF v > t THEN 255 ELSE 0 : v \in lv }

\* cv2.threshold(enhanced, 0, 255, THRESH_BINARY_INV + THRESH_OTSU)
ThresholdBinaryInv(lv, t) == { IF v > t THEN 0 ELSE 255 : v \in lv }

\* the carried image after the aggressive branch
Binarized(img, aggr, t) ==
    IF aggr THEN [img EXCEPT !.lv = ThresholdBinary(img.lv, t)] ELSE img

\* an upper bound on the votes of a line at theta in a w x h image: the set
\* pixels that can lie on it (a line a degrees off the horizontal crosses h
\* rows within at most h * cot(a) <= h * 57.3 / a columns)
LineVotes(w, h, theta) ==
    LET a == Abs(theta - 90)
        Min(x, y) == IF x < y THEN x ELSE y
    IN  IF a = 0 THEN w
        ELSE IF a = 90 THEN h
        ELSE IF a <= 45 THEN Min(w, (h * 573) \div (10 * a) + 1)
        ELSE Min(h, (w * 573) \div (10 * (90 - a)) + 1)

\* the lines cv2.HoughLines can return: a line needs more than HoughThreshold
\* votes, and the map needs set pixels
LineSeq(n, a, b, c) ==
    [i \in 1..n |-> IF i = 1 THEN a ELSE IF i <= MaxConsidered THEN b ELSE c]

HoughResults(bin) ==
    IF 255 \in bin.lv
    THEN { ls \in { LineSeq(n, a, b, c) :
                      n \in LineCounts, a \in Thetas, b \in RestThetas, c \in LateThetas } :
             \A i \in 1..Len(ls) : LineVotes(bin.w, bin.h, ls[i]) > HoughThreshold }
    ELSE { << >> }

\* lines[:20]
Sampled(ls) == SubSeq(ls, 1, IF Len(ls) < MaxConsidered THEN Len(ls) ELSE MaxConsidered)

\* angle = (theta * 180 / np.pi) - 90
AngleOf(theta) == theta - 90

\* a filter that keeps an angle of magnitude exactly AngleWindow
KeptInclusive(angle) == Abs(angle) <= AngleWindow

\* if abs(angle) < 45
Kept(angle) == Abs(angle) < AngleWindow

\* the angles list after the loop over lines[:20]
KeptAngles(ls) == SelectSeq([i \in 1..Len(Sampled(ls)) |-> AngleOf(Sampled(ls)[i])], Kept)

\* if angles: avg_angle = np.mean(angles)
MeanOf(as) ==
    IF as = << >> THEN NoMean ELSE [has |-> TRUE, sum |-> SeqSum(as), cnt |-> Len(as)]

\* a threshold that rotates at exactly MinDegrees
NeedsRotationInclusive(avg) == avg.has /\ Abs(avg.sum) >= MinDegrees * avg.cnt

\* if abs(avg_angle) > 1.0
NeedsRotation(avg) == avg.has /\ Abs(avg.sum) > MinDegrees * avg.cnt

\* the negated estimate as the rotation angle
RotationAngleNegated(avg) == [applied |-> TRUE, num |-> 0 - avg.sum, den |-> avg.cnt]

\* the angle handed to cv2.getRotationMatrix2D(center, avg_angle, 1.0)
RotationAngle(avg) == [applied |-> TRUE, num |-> avg.sum, den |-> avg.cnt]

\* cv2.warpAffine (INTER_LINEAR, BORDER_REPLICATE): every output pixel is a
\* blend of neighbouring source pixels, at one of InterTab sub-pixel offsets
Mix(a, b, k) == (a * (InterTab - k) + b * k + InterTab \div 2) \div InterTab
WarpAffine(img) ==
    [img EXCEPT !.lv = { Mix(a, b, k) : a \in img.lv, b \in img.lv, k \in 0..InterTab }]

\* a resize to the target width whatever the width
NeedsResizeAnyWidth(width) == width # target_width

\* if width > target_width
NeedsResize(width) == width > target_width

\* target_height = int(target_width * (height / width))
TargetHeight(width, height) ==
    FloatTrunc(FloatMulInt(target_width, FloatDiv(height, width)))

\* cv2.resize(enhanced, (target_width, target_height), INTER_AREA): every
\* output pixel is the mean of the source pixels it covers
AreaResize(img, tw, th) ==
    [w |-> tw, h |-> th, lv |-> { (a + b + 1) \div 2 : a \in img.lv, b \in img.lv }]

PipelineInit ==
    /\ pc = "imread"
    /\ input \in [ok : BOOLEAN, w : Widths, h : Heights, colours : Colours]
    /\ aggressive \in BOOLEAN
    /\ enhanced = NoImage /\ temp_binary = NoImage
    /\ lines = << >> /\ angles = << >> /\ avg_angle = NoMean
    /\ rotation = NoRotation /\ resized = NoImage /\ written = NoImage
    /\ err = "none"
    /\ req = << >> /\ files = {} /\ used = {}
    /\ cli = [pc |-> "idle"]

\* img = cv2.imread(input_path); if img is None: raise ValueError
Imread ==
    /\ pc = "imread"
    /\ IF input.ok
       THEN /\ pc' = "cvtColor"
            /\ enhanced' = [w |-> input.w, h |-> input.h, lv |-> input.colours]
            /\ err' = err
       ELSE /\ pc' = "raised"
            /\ err' = "ValueError"
            /\ enhanced' = enhanced
    /\ UNCHANGED <<wvars, cvars, input, aggressive, temp_binary, lines, angles, avg_angle,
                   rotation, resized, written>>

\* gray = cv2.cvtColor(img, cv2.COLOR_BGR2GRAY)
CvtColor ==
    /\ pc = "cvtColor"
    /\ enhanced' = [enhanced EXCEPT !.lv = { GrayOf(c) : c \in enhanced.lv }]
    /\ pc' = "blur"
    /\ UNCHANGED <<wvars, cvars, input, aggressive, temp_binary, lines, angles, avg_angle,
                   rotation, resized, written, err>>

\* blurred = cv2.GaussianBlur(gray, (3, 3), 0)
GaussianBlur ==
    /\ pc = "blur"
    /\ enhanced' = [enhanced EXCEPT !.lv = BlurLevels(enhanced.lv)]
    /\ pc' = "clahe"
    /\ UNCHANGED <<wvars, cvars, input, aggressive, temp_binary, lines, angles, avg_angle,
                   rotation, resized, written, err>>

\* enhanced = clahe.apply(blurred): a uniform image stays uniform
Clahe ==
    /\ pc = "clahe"
    /\ \E lv \in Palettes :
          /\ Cardinality(enhanced.lv) = 1 => Cardinality(lv) = 1
          /\ enhanced' = [enhanced EXCEPT !.lv = lv]
    /\ pc' = "binarize"
    /\ UNCHANGED <<wvars, cvars, input, aggressive, temp_binary, lines, angles, avg_angle,
                   rotation, resized, written, err>>

\* if aggressive: _, enhanced = cv2.threshold(..., THRESH_BINARY + THRESH_OTSU)
\* _, temp_binary = cv2.threshold(enhanced, ..., THRESH_BINARY_INV + THRESH_OTSU)
Binarize ==
    /\ pc = "binarize"
    /\ \E t \in OtsuThresholds(enhanced.lv) :
          LET carried == Binarized(enhanced, aggressive, t)
          IN  /\ enhanced' = carried
              /\ \E u \in OtsuThresholds(carried.lv) :
                    temp_binary' = [carried EXCEPT !.lv = ThresholdBinaryInv(carried.lv, u)]
    /\ pc' = "hough"
    /\ UNCHANGED <<wvars, cvars, input, aggressive, lines, angles, avg_angle,
                   rotation, resized, written, err>>

\* lines = cv2.HoughLines(temp_binary, 1, np.pi / 180, 200)
HoughLines ==
    /\ pc = "hough"
    /\ lines' \in HoughResults(temp_binary)
    /\ pc' = "skew"
    /\ UNCHANGED <<wvars, cvars, input, aggressive, enhanced, temp_binary, angles, avg_angle,
                   rotation, resized, written, err>>

\* the loop over lines[:20] and the mean of the kept angles
EstimateSkew ==
    /\ pc = "skew"
    /\ angles' = KeptAngles(lines)
    /\ avg_angle' = MeanOf(KeptAngles(lines))
    /\ pc' = "rotate"
    /\ UNCHANGED <<wvars, cvars, input, aggressive, enhanced, temp_binary, lines,
                   rotation, resized, written, err>>

\* if abs(avg_angle) > 1.0: M = getRotationMatrix2D(...); enhanced = warpAffine(...)
CorrectSkew ==
    /\ pc = "rotate"
    /\ IF NeedsRotation(avg_angle)
       THEN /\ rotation' = RotationAngle(avg_angle)
            /\ enhanced' = WarpAffine(enhanced)
       ELSE UNCHANGED <<rotation, enhanced>>
    /\ pc' = "resize"
    /\ UNCHANGED <<wvars, cvars, input, aggressive, temp_binary, lines, angles, avg_angle,
                   resized, written, err>>

\* the resize stage; cv2.resize raises cv2.error on an empty dsize
Resize ==
    /\ pc = "resize"
    /\ IF NeedsResize(enhanced.w)
       THEN LET target_height == TargetHeight(enhanced.w, enhanced.h)
            IN  IF target_height >= 1
                THEN /\ resized' = AreaResize(enhanced, target_width, target_height)
                     /\ pc' = "imwrite"
                     /\ err' = err
                ELSE /\ pc' = "raised"
                     /\ err' = "cv2.error"
                     /\ resized' = resized
       ELSE /\ resized' = enhanced
            /\ pc' = "imwrite"
            /\ err' = err
    /\ UNCHANGED <<wvars, cvars, input, aggressive, enhanced, temp_binary, lines, angles,
                   avg_angle, rotation, written>>

\* cv2.imwrite(output_path, resized); return output_path
Imwrite ==
    /\ pc = "imwrite"
    /\ written' = resized
    /\ pc' = "returned"
    /\ UNCHANGED <<wvars, cvars, input, aggressive, enhanced, temp_binary, lines, angles,
                   avg_angle, rotation, resized, err>>

PipelineNext ==
    \/ Imread \/ CvtColor \/ GaussianBlur \/ Clahe \/ Binarize
    \/ HoughLines \/ EstimateSkew \/ CorrectSkew \/ Resize \/ Imwrite

SpecPipeline == PipelineInit /\ [][PipelineNext]_vars
(***************************************************************************)
(* process_image: the /process handler, one instance per request.  Flask   *)
(* serves requests concurrently; every file system call is one step.       *)
(***************************************************************************)
NumRequests == 2
Reqs == 1..NumRequests
Uuids == 1..NumRequests

ALLOWED_EXTENSIONS == {"png", "jpg", "jpeg", "gif", "bmp"}

\* request.files: no 'image' field, or the field's filename
NoUpload == [present |-> FALSE, stem |-> "", dot |-> FALSE, ext |-> ""]
Uploads ==
    { NoUpload,
      [present |-> TRUE, stem |-> "", dot |-> FALSE, ext |-> ""],
      [present |-> TRUE, stem |-> "notes", dot |-> TRUE, ext |-> "txt"],
      [present |-> TRUE, stem |-> "board", dot |-> TRUE, ext |-> "PNG"],
      [present |-> TRUE, stem |-> "board", dot |-> TRUE, ext |-> "jpg"] }

\* str.lower() on the extensions above
Lower(s) == IF s = "PNG" THEN "png" ELSE s

\* allowed_file(filename)
allowed_file(u) == u.dot /\ Lower(u.ext) \in ALLOWED_EXTENSIONS

NoPath == << >>

\* input_<stem>.<ext>: a name built from the uploaded filename
InputPathFromFilename(unique_id, u) == <<"input", u.stem, Lower(u.ext)>>

\* input_path = uploads/input_<unique_id>.<file_ext>
InputPath(unique_id, u) == <<"input", unique_id, Lower(u.ext)>>

\* preprocessed_path = uploads/preprocessed_<unique_id>.png
PreprocessedPath(unique_id, u) == <<"preprocessed", unique_id, "png">>

Exists(fs, p) == \E f \in fs : f[1] = p
DataAt(fs, p) == (CHOOSE f \in fs : f[1] = p)[2]
WriteFile(fs, p, d) == { f \in fs : f[1] # p } \cup { <<p, d>> }
RemoveFile(fs, p) == { f \in fs : f[1] # p }

NoResponse == [code |-> 0, success |-> FALSE, latex |-> 0]

WebInit ==
    /\ req \in [Reqs -> { [pc |-> "validate", upload |-> u, unique_id |-> 0,
                           input_path |-> NoPath, preprocessed_path |-> NoPath,
                           saved |-> FALSE, latex_result |-> 0,
                           attempted |-> {}, missing |-> FALSE,
                           response |-> NoResponse] : u \in Uploads }]
    /\ files = {} /\ used = {}
    /\ pc = "idle" /\ input = [ok |-> FALSE, w |-> 0, h |-> 0, colours |-> {}]
    /\ aggressive = FALSE /\ enhanced = NoImage /\ temp_binary = NoImage
    /\ lines = << >> /\ angles = << >> /\ avg_angle = NoMean
    /\ rotation = NoRotation /\ resized = NoImage /\ written = NoImage
    /\ err = "none"
    /\ cli = [pc |-> "idle"]

\* the three checks before the try block: 400 on each failure
Validate(r) ==
    /\ req[r].pc = "validate"
    /\ LET u == req[r].upload
       IN  IF ~u.present \/ (u.stem = "" /\ ~u.dot) \/ ~allowed_file(u)
           THEN req' = [req EXCEPT ![r].pc = "done",
                                   ![r].response = [NoResponse EXCEPT !.code = 400]]
           ELSE req' = [req EXCEPT ![r].pc = "names"]
    /\ UNCHANGED <<files, used, pvars, cvars>>

\* file_ext, unique_id = str(uuid.uuid4()), input_path, preprocessed_path;
\* uuid4 is taken never to repeat a value
Names(r) ==
    /\ req[r].pc = "names"
    /\ \E u \in Uuids \ used :
          /\ used' = used \cup {u}
          /\ req' = [req EXCEPT ![r].pc = "save",
                                ![r].unique_id = u,
                                ![r].input_path = InputPath(u, req[r].upload),
                                ![r].preprocessed_path = PreprocessedPath(u, req[r].upload)]
    /\ UNCHANGED <<files, pvars, cvars>>

\* file.save(input_path); a failed save may leave a partial file
Save(r) ==
    /\ req[r].pc = "save"
    /\ \E ok \in BOOLEAN, created \in BOOLEAN :
          /\ ok => created
          /\ files' = IF created THEN WriteFile(files, req[r].input_path, r) ELSE files
          /\ req' = [req EXCEPT ![r].pc = IF ok THEN "preprocess" ELSE "except",
                                ![r].saved = ok]
    /\ UNCHANGED <<used, pvars, cvars>>

\* preprocess_image(input_path, preprocessed_path): reads the input file,
\* raises (ValueError, cv2.error) or writes the preprocessed file
Preprocess(r) ==
    /\ req[r].pc = "preprocess"
    /\ IF ~Exists(files, req[r].input_path)
       THEN /\ req' = [req EXCEPT ![r].pc = "except", ![r].missing = TRUE]
            /\ files' = files
       ELSE \E raised \in BOOLEAN :
              IF raised
              THEN /\ req' = [req EXCEPT ![r].pc = "except"]
                   /\ files' = files
              ELSE /\ req' = [req EXCEPT ![r].pc = "predict"]
                   /\ files' = WriteFile(files, req[r].preprocessed_path,
                                         DataAt(files, req[r].input_path))
    /\ UNCHANGED <<used, pvars, cvars>>

\* latex_result = model.predict(preprocessed_path)
Predict(r) ==
    /\ req[r].pc = "predict"
    /\ IF ~Exists(files, req[r].preprocessed_path)
       THEN req' = [req EXCEPT ![r].pc = "except", ![r].missing = TRUE]
       ELSE \E raised \in BOOLEAN :
              req' = IF raised
                     THEN [req EXCEPT ![r].pc = "except"]
                     ELSE [req EXCEPT ![r].pc = "remove_input",
                                      ![r].latex_result =
                                          DataAt(files, req[r].preprocessed_path)]
    /\ UNCHANGED <<files, used, pvars, cvars>>

\* where the success path goes after os.remove(input_path): both removals
\* share one try block, so an error skips the second
AfterRemoveInput(removed) == IF removed THEN "remove_preprocessed" ELSE "respond"

\* try: os.remove(input_path) ...
RemoveInput(r) ==
    /\ req[r].pc = "remove_input"
    /\ \E removed \in BOOLEAN :
          /\ removed => Exists(files, req[r].input_path)
          /\ files' = IF removed THEN RemoveFile(files, req[r].input_path) ELSE files
          /\ req' = [req EXCEPT ![r].pc = AfterRemoveInput(removed),
                                ![r].attempted = @ \cup {req[r].input_path},
                                ![r].missing = @ \/ ~Exists(files, req[r].input_path)]
    /\ UNCHANGED <<used, pvars, cvars>>

\* ... os.remove(preprocessed_path) except: pass
RemovePreprocessed(r) ==
    /\ req[r].pc = "remove_preprocessed"
    /\ \E removed \in BOOLEAN :
          /\ removed => Exists(files, req[r].preprocessed_path)
          /\ files' = IF removed THEN RemoveFile(files, req[r].preprocessed_path)
                      ELSE files
          /\ req' = [req EXCEPT ![r].pc = "respond",
                                ![r].attempted = @ \cup {req[r].preprocessed_path},
                                ![r].missing = @ \/ ~Exists(files, req[r].preprocessed_path)]
    /\ UNCHANGED <<used, pvars, cvars>>

\* return jsonify({'success': True, 'latex': latex_result})
Respond(r) ==
    /\ req[r].pc = "respond"
    /\ req' = [req EXCEPT ![r].pc = "done",
                          ![r].response = [code |-> 200, success |-> TRUE,
                                           latex |-> req[r].latex_result]]
    /\ UNCHANGED <<files, used, pvars, cvars>>

\* except Exception: if os.path.exists(input_path): os.remove(input_path) ...
ExceptRemoveInput(r) ==
    /\ req[r].pc = "except"
    /\ IF Exists(files, req[r].input_path)
       THEN \E removed \in BOOLEAN :
              /\ files' = IF removed THEN RemoveFile(files, req[r].input_path)
                          ELSE files
              /\ req' = [req EXCEPT ![r].pc = IF removed THEN "except_preprocessed"
                                              ELSE "respond_error",
                                    ![r].attempted = @ \cup {req[r].input_path}]
       ELSE /\ files' = files
            /\ req' = [req EXCEPT ![r].pc = "except_preprocessed"]
    /\ UNCHANGED <<used, pvars, cvars>>

\* ... if os.path.exists(preprocessed_path): os.remove(preprocessed_path)
ExceptRemovePreprocessed(r) ==
    /\ req[r].pc = "except_preprocessed"
    /\ IF Exists(files, req[r].preprocessed_path)
       THEN \E removed \in BOOLEAN :
              /\ files' = IF removed THEN RemoveFile(files, req[r].preprocessed_path)
                          ELSE files
              /\ req' = [req EXCEPT ![r].pc = "respond_error",
                                    ![r].attempted = @ \cup {req[r].preprocessed_path}]
       ELSE /\ files' = files
            /\ req' = [req EXCEPT ![r].pc = "respond_error"]
    /\ UNCHANGED <<used, pvars, cvars>>

\* return jsonify({'success': False, 'error': str(e)}), 500
RespondError(r) ==
    /\ req[r].pc = "respond_error"
    /\ req' = [req EXCEPT ![r].pc = "done",
                          ![r].response = [NoResponse EXCEPT !.code = 500]]
    /\ UNCHANGED <<files, used, pvars, cvars>>

WebNext ==
    \E r \in Reqs :
        \/ Validate(r) \/ Names(r) \/ Save(r) \/ Preprocess(r) \/ Predict(r)
        \/ RemoveInput(r) \/ RemovePreprocessed(r) \/ Respond(r)
        \/ ExceptRemoveInput(r) \/ ExceptRemovePreprocessed(r) \/ RespondError(r)

SpecWeb == WebInit /\ [][WebNext]_vars

(***************************************************************************)
(* main: the command line run.  cli.steps lists the steps run so far with  *)
(* their outcome; cli.exit is the process's exit code once it has exited.  *)
(***************************************************************************)
StepOrder == <<"args", "exists", "makedirs", "preprocess", "load", "predict",
               "write", "cleanup">>

\* a run in which a failed removal of the temporary file ends the run
GoesOnOnlyIfOk(step, ok) == ok

\* whether main goes on after a step: every failure ends in sys.exit(1) (or
\* in an uncaught exception), except the removal of the temporary file,
\* whose failure is printed as a warning
GoesOn(step, ok) == ok \/ step = "cleanup"

\* the state after a step with outcome ok
Stepped(c, step, ok, next) ==
    IF GoesOn(step, ok)
    THEN [c EXCEPT !.pc = next, !.steps = Append(@, <<step, ok>>)]
    ELSE [c EXCEPT !.pc = "exited", !.exit = 1, !.steps = Append(@, <<step, ok>>)]

CliInit ==
    /\ cli \in [pc : {"args"}, argc : {1, 2, 3}, input_exists : BOOLEAN,
                output_dir : BOOLEAN, temp_file : BOOLEAN, tex_file : BOOLEAN,
                steps : {<< >>}, exit : {-1}]
    /\ req = << >> /\ files = {} /\ used = {}
    /\ pc = "idle" /\ input = [ok |-> FALSE, w |-> 0, h |-> 0, colours |-> {}]
    /\ aggressive = FALSE /\ enhanced = NoImage /\ temp_binary = NoImage
    /\ lines = << >> /\ angles = << >> /\ avg_angle = NoMean
    /\ rotation = NoRotation /\ resized = NoImage /\ written = NoImage
    /\ err = "none"

\* if len(sys.argv) != 2: sys.exit(1)
CheckArgs ==
    /\ cli.pc = "args"
    /\ cli' = Stepped(cli, "args", cli.argc = 2, "exists")
    /\ UNCHANGED <<pvars, wvars>>

\* if not os.path.exists(input_image_path): sys.exit(1)
CheckExists ==
    /\ cli.pc = "exists"
    /\ cli' = Stepped(cli, "exists", cli.input_exists, "makedirs")
    /\ UNCHANGED <<pvars, wvars>>

\* os.makedirs("output", exist_ok=True): an OSError is not caught
Makedirs ==
    /\ cli.pc = "makedirs"
    /\ \E ok \in BOOLEAN :
          cli' = Stepped([cli EXCEPT !.output_dir = @ \/ ok], "makedirs", ok, "preprocess")
    /\ UNCHANGED <<pvars, wvars>>

\* try: preprocess_image(...) except Exception: sys.exit(1); cv2.imwrite
\* reports a failed write by its return value, which is not looked at
PreprocessStep ==
    /\ cli.pc = "preprocess"
    /\ \E ok \in BOOLEAN, wrote \in BOOLEAN :
          /\ wrote => ok
          /\ cli' = Stepped([cli EXCEPT !.temp_file = @ \/ wrote],
                            "preprocess", ok, "load")
    /\ UNCHANGED <<pvars, wvars>>

\* try: model = Pix2TexModel() except Exception: sys.exit(1)
LoadModel ==
    /\ cli.pc = "load"
    /\ \E ok \in BOOLEAN : cli' = Stepped(cli, "load", ok, "predict")
    /\ UNCHANGED <<pvars, wvars>>

\* try: latex_result = model.predict(preprocessed_path) except Exception: sys.exit(1)
PredictStep ==
    /\ cli.pc = "predict"
    /\ \E ok \in BOOLEAN :
          /\ ok => cli.temp_file
          /\ cli' = Stepped(cli, "predict", ok, "write")
    /\ UNCHANGED <<pvars, wvars>>

\* os.makedirs; try: open(output_file, 'w') ... f.write(latex_result)
\* except Exception: sys.exit(1)
WriteOutput ==
    /\ cli.pc = "write"
    /\ \E ok \in BOOLEAN :
          cli' = Stepped([cli EXCEPT !.tex_file = @ \/ ok], "write", ok, "cleanup")
    /\ UNCHANGED <<pvars, wvars>>

\* try: if os.path.exists(preprocessed_path): os.remove(preprocessed_path)
\* except Exception: print warning
Cleanup ==
    /\ cli.pc = "cleanup"
    /\ \E ok \in BOOLEAN :
          cli' = Stepped([cli EXCEPT !.temp_file = @ /\ ~ok], "cleanup", ok, "return")
    /\ UNCHANGED <<pvars, wvars>>

\* main returns: the interpreter exits with code 0
Return ==
    /\ cli.pc = "return"
    /\ cli' = [cli EXCEPT !.pc = "exited", !.exit = 0]
    /\ UNCHANGED <<pvars, wvars>>

CliNext ==
    \/ CheckArgs \/ CheckExists \/ Makedirs \/ PreprocessStep \/ LoadModel
    \/ PredictStep \/ WriteOutput \/ Cleanup \/ Return

SpecCli == CliInit /\ [][CliNext]_vars

(***************************************************************************)
(* Properties of preprocess_image, checked under SpecPipeline              *)
(***************************************************************************)
AfterResize == pc \in {"imwrite", "returned"}
AfterSkew   == pc \in {"rotate", "resize", "imwrite", "returned"} \/ err = "cv2.error"
IsBinary(lv) == lv \subseteq {0, 255}

\* C1: the resize stage never upscales: the width it hands on is at most
\* max(input width, target width), and an image of width <= target width
\* (the target width itself included) is handed on unchanged.
C1_NoUpscaling ==
    AfterResize =>
        /\ resized.w <= (IF enhanced.w > target_width THEN enhanced.w ELSE target_width)
        /\ enhanced.w <= target_width => resized = enhanced

C1_Witness ==
    /\ pc = "imwrite" /\ enhanced.w = target_width
    /\ resized = enhanced /\ Cardinality(resized.lv) > 1

\* C2: with a skew estimate of magnitude <= MinDegrees (exactly MinDegrees
\* included, and no estimate at all) the skew correction step leaves the
\* carried image as it is and rotates nothing; it rotates only when the
\* magnitude is strictly greater.
C2_SkewNoOpThreshold ==
    [][pc = "rotate" =>
         IF Abs(avg_angle.sum) <= MinDegrees * avg_angle.cnt
         THEN enhanced' = enhanced /\ rotation' = NoRotation
         ELSE rotation'.applied]_vars

C2_Witness ==
    /\ pc = "resize" /\ avg_angle.has
    /\ Abs(avg_angle.sum) = MinDegrees * avg_angle.cnt
    /\ ~rotation.applied /\ Cardinality(enhanced.lv) > 1

\* C3 as stated: with aggressive = true the written image is strictly binary
\* whatever later stages ran on it.
C3_BinaryOutputAlways ==
    (aggressive /\ pc = "returned") => IsBinary(written.lv)

\* C3 as amended: with aggressive = true the carried image is strictly binary
\* from the binarization step up to the skew correction step, and the written
\* image is strictly binary when no rotation was applied and the image was not
\* shrunk.
C3_BinaryUnlessInterpolated ==
    aggressive =>
        /\ pc \in {"hough", "skew", "rotate"} => IsBinary(enhanced.lv)
        /\ (pc = "returned" /\ ~rotation.applied /\ input.w <= target_width)
              => IsBinary(written.lv)

C3_Witness ==
    /\ aggressive /\ pc = "returned" /\ ~rotation.applied
    /\ input.w <= target_width /\ written.lv = {0, 255}

\* C4: for every image wider than the target width the resize stage produces
\* an image of the target width whose height is target_width * height / width
\* rounded to the nearest integer.
C4_RoundedHeight ==
    ((AfterResize \/ err = "cv2.error") /\ enhanced.w > target_width) =>
        /\ AfterResize
        /\ resized.w = target_width
        /\ 2 * Abs(resized.h * enhanced.w - target_width * enhanced.h) <= enhanced.w

\* C5 as stated: the angle handed to the affine rotation is the negation of
\* the skew estimate.
C5_RotationByNegatedEstimate ==
    rotation.applied =>
        rotation.num * avg_angle.cnt = (0 - avg_angle.sum) * rotation.den

\* C5 as amended: the angle handed to the affine rotation is the skew
\* estimate itself, sign unchanged, for estimates of either sign.
C5_RotationByEstimate ==
    rotation.applied =>
        /\ rotation.den > 0
        /\ rotation.num * avg_angle.cnt = avg_angle.sum * rotation.den

C5_Witness ==
    /\ rotation.applied /\ avg_angle.sum < 0 /\ pc = "resize"

\* C6: on a decoded image no stage of preprocess_image raises, and whenever
\* the width exceeds the target width the target height is at least 1.
C6_StagesTotal ==
    /\ input.ok => pc # "raised"
    /\ (pc = "resize" /\ enhanced.w > target_width)
          => TargetHeight(enhanced.w, enhanced.h) >= 1

RECURSIVE SumAngles(_, _)
SumAngles(ls, S) ==
    IF S = {} THEN 0
    ELSE LET i == CHOOSE j \in S : TRUE
         IN  (ls[i] - 90) + SumAngles(ls, S \ {i})

EstimateIs(S) ==
    /\ avg_angle.has = (S # {})
    /\ avg_angle.cnt = Cardinality(S)
    /\ avg_angle.sum = SumAngles(lines, S)
    /\ (~avg_angle.has /\ pc \in {"resize", "imwrite", "returned"})
          => ~rotation.applied
    /\ pc \in {"rotate", "resize"} => err = "none"

\* C10 as stated: the estimate is the mean of (theta - 90) over the first 20
\* lines whose magnitude does not exceed 45 degrees (exactly 45 is kept);
\* without such a line there is no estimate, no rotation and no error.
C10_MeanOfAnglesUpTo45 ==
    AfterSkew =>
        EstimateIs({ i \in 1..Len(lines) :
                       i <= MaxConsidered /\ Abs(lines[i] - 90) <= AngleWindow })

\* C10 as amended: the estimate is the mean of (theta - 90) over the first 20
\* lines whose magnitude is strictly below 45 degrees (exactly 45 is
\* discarded); without such a line there is no estimate, no rotation and no
\* error on the way to the resize stage.
C10_MeanOfAnglesBelow45 ==
    AfterSkew =>
        EstimateIs({ i \in 1..Len(lines) :
                       i <= MaxConsidered /\ Abs(lines[i] - 90) < AngleWindow })

C10_Witness ==
    /\ pc = "resize" /\ avg_angle.has /\ Len(lines) > MaxConsidered
    /\ \E i \in 1..MaxConsidered : Abs(lines[i] - 90) = AngleWindow
    /\ lines[Len(lines)] # lines[MaxConsidered]
(***************************************************************************)
(* Properties of process_image, checked under SpecWeb                      *)
(***************************************************************************)
PathsOf(r) == {req[r].input_path, req[r].preprocessed_path} \ {NoPath}

\* C7: a request that saved its upload has, when its response is returned,
\* attempted the deletion of each of its temporary files that exists, whether
\* or not another deletion failed, and the response is the outcome's: 200 with
\* the result after a successful inference, 500 otherwise.
C7_CleanupAttemptsBoth ==
    \A r \in Reqs :
        (req[r].pc = "done" /\ req[r].saved) =>
            /\ \A p \in PathsOf(r) : Exists(files, p) => p \in req[r].attempted
            /\ req[r].response.code = (IF req[r].latex_result # 0 THEN 200 ELSE 500)

\* C9: concurrent requests are independent: their temporary paths are
\* pairwise distinct (also for identical filenames), every file in the upload
\* folder lies on a path of the request whose upload it derives from, no
\* request finds one of its files gone, and a successful response carries the
\* result of the request's own upload.
C9_RequestsIndependent ==
    /\ \A r1 \in Reqs, r2 \in Reqs : r1 # r2 => PathsOf(r1) \cap PathsOf(r2) = {}
    /\ \A f \in files : f[1] \in PathsOf(f[2])
    /\ \A r \in Reqs :
          /\ ~req[r].missing
          /\ req[r].latex_result \in {0, r}
          /\ req[r].response.success => req[r].response.latex = r

C9_Witness ==
    \E r1 \in Reqs, r2 \in Reqs :
        /\ r1 # r2 /\ req[r1].upload = req[r2].upload
        /\ req[r1].pc = "predict" /\ req[r2].pc = "remove_preprocessed"
        /\ Cardinality(files) = 3

(***************************************************************************)
(* Properties of main, checked under SpecCli                               *)
(***************************************************************************)
Succeeded(step) == \E i \in 1..Len(cli.steps) : cli.steps[i] = <<step, TRUE>>

\* C8: main exits with code 1 on any failure and runs no step after the
\* failing one; it exits with code 0 exactly when preprocessing, model load,
\* inference and the writing of output.tex all succeeded, also when the
\* removal of the temporary file fails.
C8_ExitCodes ==
    /\ \A i \in 1..Len(cli.steps) :
          /\ cli.steps[i][1] = StepOrder[i]
          /\ (i < Len(cli.steps) /\ cli.steps[i][1] # "cleanup") => cli.steps[i][2]
    /\ cli.pc = "exited" =>
          /\ cli.exit \in {0, 1}
          /\ cli.exit = 0 <=> (/\ Succeeded("preprocess") /\ Succeeded("load")
                               /\ Succeeded("predict") /\ Succeeded("write"))
          /\ cli.exit = 1 <=> (cli.steps # << >>
                               /\ cli.steps[Len(cli.steps)][1] # "cleanup"
                               /\ ~cli.steps[Len(cli.steps)][2])

C8_Witness ==
    /\ cli.pc = "exited" /\ cli.exit = 0
    /\ cli.steps[Len(cli.steps)] = <<"cleanup", FALSE>>
    /\ cli.temp_file /\ cli.tex_file
====
